---- MODULE Spec2Model ----
(***************************************************************************)
(* Link graph of the temporal knowledge base: kb/services/link_service.py  *)
(* (LinkService) over the tables of kb/core/models.py (Entry, EntryLink).  *)
(*                                                                         *)
(* Strengths are Python floats in the source.  The model counts them in    *)
(* tenths (0.8 is 8, 1.0 is 10), which is exact for every constant of the  *)
(* detector and every comparison the service makes on them.                *)
(* Text is a sequence of one-character strings; str.lower() is Lower.      *)
(***************************************************************************)
EXTENDS Integers, Sequences, FiniteSets, TLC

VARIABLES entries, links, nextId, last, versions, nextEntry, sessions, loaded

vars == <<entries, links, nextId, last, versions, nextEntry, sessions, loaded>>

\* what the link service never writes: the entry_versions table, the number of
\* the next entry, the calls in flight, the relationship collections in memory
aside == <<versions, nextEntry, sessions, loaded>>

(***************************************************************************)
(* Bounds of the model                                                     *)
(***************************************************************************)
NumEntries == 3
MaxVersions == 3
MaxLinks == 2

EntryIds == 1..NumEntries

(***************************************************************************)
(* Program constants (link_service.py)                                     *)
(***************************************************************************)
TitleMentionStrength == 8
SharedTagsCap == 7
SharedTagsPerTag == 2
SharedTagsMin == 2
SharedProjectStrength == 6
ContextWindow == 50
DefaultStrength == 10

\* schemas.py LinkType
LinkType == {"references", "builds_on", "contradicts", "applies_to", "inspired_by"}
REFERENCES == "references"
APPLIES_TO == "applies_to"

\* A context is None, a text, or the text "Shared tags: .." / "Shared
\* project: .." built from a set of names; one record shape holds the three.
NoContext == [kind |-> "None", text |-> << >>, names |-> {}]
TextContext(t) == [kind |-> "text", text |-> t, names |-> {}]
SharedContext(label, shared) == [kind |-> label, text |-> << >>, names |-> shared]

(***************************************************************************)
(* Text                                                                    *)
(***************************************************************************)
LowerChar(c) ==
    CASE c = "A" -> "a"
      [] c = "B" -> "b"
      [] c = "C" -> "c"
      [] OTHER -> c

\* str.lower()
Lower(s) == [i \in 1..Len(s) |-> LowerChar(s[i])]

\* the set of offsets (0-based) at which needle occurs in hay
Occurrences(needle, hay) ==
    {o \in 0..(Len(hay) - Len(needle)) :
        SubSeq(hay, o + 1, o + Len(needle)) = needle}

\* Python's  needle in hay
Contains(needle, hay) == Occurrences(needle, hay) # {}

Min(a, b) == IF a <= b THEN a ELSE b
Max(a, b) == IF a >= b THEN a ELSE b

SetMin(S) == CHOOSE x \in S : \A y \in S : x <= y
SetMax(S) == CHOOSE x \in S : \A y \in S : x >= y

\* f"{entry.title} {entry.content}".lower()
EntryText(entry) == Lower(entry.title \o <<" ">> \o entry.content)

\* re.compile(f".{{0,50}}{title}.{{0,50}}").search(entry_text).group(0):
\* the leftmost start from which an occurrence is within the window, the
\* greedy prefix then reaches the last occurrence within the window, and the
\* greedy suffix takes up to a window of what follows.  (No text of the model
\* holds a newline, which "." would stop at.)
TitleContext(title_lower, entry_text) ==
    LET occ == Occurrences(title_lower, entry_text)
    IN  IF occ = {} THEN NoContext
        ELSE LET first == SetMin(occ)
                 start == Max(0, first - ContextWindow)
                 reach == SetMax({o \in occ : o <= start + ContextWindow})
                 stop  == Min(Len(entry_text),
                              reach + Len(title_lower) + ContextWindow)
             IN  TextContext(SubSeq(entry_text, start + 1, stop))

(***************************************************************************)
(* Link Detector: LinkService.detect_links_in_entry                        *)
(***************************************************************************)
\* session.query(Entry).filter(Entry.id != entry.id).all(), in table order
OtherEntries(pop, subject) ==
    SelectSeq([i \in 1..NumEntries |-> i], LAMBDA o : o # subject)

\* the title test without lower-casing the title of the other entry
TitleCandidateCaseSensitive(pop, subject, other) ==
    IF Contains(pop[other].title, EntryText(pop[subject]))
    THEN << [to_entry_id |-> other,
             to_entry_title |-> pop[other].title,
             link_type |-> REFERENCES,
             strength |-> TitleMentionStrength,
             context |-> TitleContext(pop[other].title, EntryText(pop[subject])),
             reason |-> "title_mention"] >>
    ELSE << >>

TitleCandidate(pop, subject, other) ==
    IF Contains(Lower(pop[other].title), EntryText(pop[subject]))
    THEN << [to_entry_id |-> other,
             to_entry_title |-> pop[other].title,
             link_type |-> REFERENCES,
             strength |-> TitleMentionStrength,
             context |-> TitleContext(Lower(pop[other].title), EntryText(pop[subject])),
             reason |-> "title_mention"] >>
    ELSE << >>

TagCandidate(pop, subject, other) ==
    IF pop[subject].tags # {} /\ pop[other].tags # {}
    THEN LET shared_tags == pop[subject].tags \cap pop[other].tags
         IN  IF Cardinality(shared_tags) >= SharedTagsMin
             THEN << [to_entry_id |-> other,
                      to_entry_title |-> pop[other].title,
                      link_type |-> REFERENCES,
                      strength |-> Min(SharedTagsCap, Cardinality(shared_tags) * SharedTagsPerTag),
                      context |-> SharedContext("Shared tags", shared_tags),
                      reason |-> "shared_tags"] >>
             ELSE << >>
    ELSE << >>

ProjectCandidate(pop, subject, other) ==
    IF pop[subject].projects # {} /\ pop[other].projects # {}
    THEN LET shared_projects == pop[subject].projects \cap pop[other].projects
         IN  IF shared_projects # {}
             THEN << [to_entry_id |-> other,
                      to_entry_title |-> pop[other].title,
                      link_type |-> APPLIES_TO,
                      strength |-> SharedProjectStrength,
                      context |-> SharedContext("Shared project", shared_projects),
                      reason |-> "shared_project"] >>
             ELSE << >>
    ELSE << >>

\* the three appends of one iteration of the loop over other_entries
CandidatesFor(pop, subject, other) ==
    TitleCandidate(pop, subject, other)
        \o TagCandidate(pop, subject, other)
        \o ProjectCandidate(pop, subject, other)

RECURSIVE RawFrom(_, _, _)
RawFrom(pop, subject, others) ==
    IF others = << >> THEN << >>
    ELSE CandidatesFor(pop, subject, Head(others))
            \o RawFrom(pop, subject, Tail(others))

\* detected_links before "Filter by minimum strength"
RawCandidates(pop, subject) == RawFrom(pop, subject, OtherEntries(pop, subject))

\* detected_links = [link for link in detected_links if link['strength'] >= min_strength]
FilterByStrength(cands, min_strength) ==
    SelectSeq(cands, LAMBDA c : c.strength >= min_strength)

\* the unique_links loop keeping the last candidate of a target
KeepLast(unique, c) ==
    IF \E i \in 1..Len(unique) : unique[i].to_entry_id = c.to_entry_id
    THEN LET i == CHOOSE j \in 1..Len(unique) : unique[j].to_entry_id = c.to_entry_id
         IN  [unique EXCEPT ![i] = c]
    ELSE Append(unique, c)

\* one step of the unique_links loop: a dict keeps the position of a key
\* whose value is replaced
KeepHighest(unique, c) ==
    IF \E i \in 1..Len(unique) : unique[i].to_entry_id = c.to_entry_id
    THEN LET i == CHOOSE j \in 1..Len(unique) : unique[j].to_entry_id = c.to_entry_id
         IN  IF c.strength > unique[i].strength
             THEN [unique EXCEPT ![i] = c]
             ELSE unique
    ELSE Append(unique, c)

RECURSIVE UniqueLinks(_, _)
UniqueLinks(unique, cands) ==
    IF cands = << >> THEN unique
    ELSE UniqueLinks(KeepHighest(unique, Head(cands)), Tail(cands))

\* detect_links_in_entry(entry, min_strength)
DetectLinksInEntry(pop, subject, min_strength) ==
    UniqueLinks(<< >>, FilterByStrength(RawCandidates(pop, subject), min_strength))

(***************************************************************************)
(* Link Repository: LinkService.create_link / delete_link                  *)
(*                                                                         *)
(* An EntryLink row is [id, from_entry_id, to_entry_id, link_type,         *)
(* strength, context, is_automatic]; ids are handed out in creation order  *)
(* (generate_id("lnk") is a fresh id, created_at the time of the insert).  *)
(* A call returns [links, nextId, ret]; ret is [tag, v].                   *)
(***************************************************************************)
RetNone == [tag |-> "None", v |-> 0]
RetLink(l) == [tag |-> "link", v |-> l]
RetBool(b) == [tag |-> "bool", v |-> b]
RetInt(n) == [tag |-> "int", v |-> n]
RetRaise == [tag |-> "raise", v |-> 0]
RetList(s) == [tag |-> "list", v |-> s]

\* session.query(EntryLink).filter(and_(from == .., to == .., type == ..))
Existing(ls, from_entry_id, to_entry_id, link_type) ==
    {l \in ls : /\ l.from_entry_id = from_entry_id
                /\ l.to_entry_id = to_entry_id
                /\ l.link_type = link_type}

\* create_link without the check for an existing edge
create_link_always_insert(ls, nid, from_entry_id, to_entry_id, link_type, context, strength, is_automatic, fail) ==
    IF fail
    THEN [links |-> ls, nextId |-> nid, ret |-> RetNone]
    ELSE LET link == [id |-> nid,
                      from_entry_id |-> from_entry_id,
                      to_entry_id |-> to_entry_id,
                      link_type |-> link_type,
                      context |-> context,
                      strength |-> strength,
                      is_automatic |-> is_automatic]
         IN  [links |-> ls \cup {link}, nextId |-> nid + 1, ret |-> RetLink(link)]

\* create_link that raises the strength of an existing edge and keeps its context
create_link_keep_context(ls, nid, from_entry_id, to_entry_id, link_type, context, strength, is_automatic, fail) ==
    IF fail
    THEN [links |-> ls, nextId |-> nid, ret |-> RetNone]
    ELSE LET found == Existing(ls, from_entry_id, to_entry_id, link_type)
         IN  IF found # {}
             THEN LET existing == CHOOSE l \in found : \A o \in found : l.id <= o.id
                  IN  IF strength > existing.strength
                      THEN LET updated == [existing EXCEPT !.strength = strength]
                           IN  [links |-> (ls \ {existing}) \cup {updated},
                                nextId |-> nid,
                                ret |-> RetLink(updated)]
                      ELSE [links |-> ls, nextId |-> nid, ret |-> RetLink(existing)]
             ELSE create_link_always_insert(ls, nid, from_entry_id, to_entry_id, link_type,
                                            context, strength, is_automatic, fail)

\* create_link that overwrites an existing edge whatever its strength
create_link_overwrite(ls, nid, from_entry_id, to_entry_id, link_type, context, strength, is_automatic, fail) ==
    IF fail
    THEN [links |-> ls, nextId |-> nid, ret |-> RetNone]
    ELSE LET found == Existing(ls, from_entry_id, to_entry_id, link_type)
         IN  IF found # {}
             THEN LET existing == CHOOSE l \in found : \A o \in found : l.id <= o.id
                      updated == [existing EXCEPT !.strength = strength,
                                                  !.context = context]
                  IN  [links |-> (ls \ {existing}) \cup {updated},
                       nextId |-> nid,
                       ret |-> RetLink(updated)]
             ELSE create_link_always_insert(ls, nid, from_entry_id, to_entry_id, link_type,
                                            context, strength, is_automatic, fail)

\* create_link; fail is a storage failure raised by the query or the commit,
\* which the except clause answers with a rollback and None
\* create_link writing is_automatic too when it strengthens an edge
create_link_set_automatic(ls, nid, from_entry_id, to_entry_id, link_type, context, strength, is_automatic, fail) ==
    IF fail
    THEN [links |-> ls, nextId |-> nid, ret |-> RetNone]
    ELSE LET found == Existing(ls, from_entry_id, to_entry_id, link_type)
         IN  IF found # {}
             THEN LET existing == CHOOSE l \in found : \A o \in found : l.id <= o.id
                  IN  IF strength > existing.strength
                      THEN LET updated == [existing EXCEPT !.strength = strength,
                                                           !.context = context,
                                                           !.is_automatic = is_automatic]
                           IN  [links |-> (ls \ {existing}) \cup {updated},
                                nextId |-> nid,
                                ret |-> RetLink(updated)]
                      ELSE [links |-> ls, nextId |-> nid, ret |-> RetLink(existing)]
             ELSE LET link == [id |-> nid,
                               from_entry_id |-> from_entry_id,
                               to_entry_id |-> to_entry_id,
                               link_type |-> link_type,
                               context |-> context,
                               strength |-> strength,
                               is_automatic |-> is_automatic]
                  IN  [links |-> ls \cup {link}, nextId |-> nid + 1, ret |-> RetLink(link)]

create_link(ls, nid, from_entry_id, to_entry_id, link_type, context, strength, is_automatic, fail) ==
    IF fail
    THEN [links |-> ls, nextId |-> nid, ret |-> RetNone]
    ELSE LET found == Existing(ls, from_entry_id, to_entry_id, link_type)
         IN  IF found # {}
             THEN LET existing == CHOOSE l \in found : \A o \in found : l.id <= o.id
                  IN  IF strength > existing.strength
                      THEN LET updated == [existing EXCEPT !.strength = strength,
                                                           !.context = context]
                           IN  [links |-> (ls \ {existing}) \cup {updated},
                                nextId |-> nid,
                                ret |-> RetLink(updated)]
                      ELSE [links |-> ls, nextId |-> nid, ret |-> RetLink(existing)]
             ELSE LET link == [id |-> nid,
                               from_entry_id |-> from_entry_id,
                               to_entry_id |-> to_entry_id,
                               link_type |-> link_type,
                               context |-> context,
                               strength |-> strength,
                               is_automatic |-> is_automatic]
                  IN  [links |-> ls \cup {link}, nextId |-> nid + 1, ret |-> RetLink(link)]

\* delete_link that answers True for an id that is not in the store
delete_link_always_true(ls, link_id, fail) ==
    IF fail
    THEN [links |-> ls, ret |-> RetBool(FALSE)]
    ELSE [links |-> {l \in ls : l.id # link_id}, ret |-> RetBool(TRUE)]

\* delete_link; a storage failure is answered with a rollback and False
delete_link(ls, link_id, fail) ==
    IF fail
    THEN [links |-> ls, ret |-> RetBool(FALSE)]
    ELSE LET found == {l \in ls : l.id = link_id}
         IN  IF found # {}
             THEN [links |-> ls \ found, ret |-> RetBool(TRUE)]
             ELSE [links |-> ls, ret |-> RetBool(FALSE)]

(***************************************************************************)
(* Auto-Linker: LinkService.auto_link_entry / auto_link_all_entries        *)
(***************************************************************************)
\* the loop of auto_link_entry over the detected candidates; failTo holds the
\* targets whose create_link meets a storage failure
RECURSIVE LinkDetected(_, _, _, _, _, _)
LinkDetected(ls, nid, from_entry_id, detected, failTo, created_count) ==
    IF detected = << >>
    THEN [links |-> ls, nextId |-> nid, count |-> created_count]
    ELSE LET link_data == Head(detected)
             r == create_link(ls, nid, from_entry_id, link_data.to_entry_id,
                              link_data.link_type, link_data.context,
                              link_data.strength, TRUE,
                              link_data.to_entry_id \in failTo)
         IN  LinkDetected(r.links, r.nextId, from_entry_id, Tail(detected), failTo,
                          IF r.ret.tag # "None" THEN created_count + 1
                                                 ELSE created_count)

\* auto_link_entry; failRead is a storage failure of the reads of
\* detect_links_in_entry (the query of the other entries, the loading of
\* tags and projects), which nothing catches.  failed tells whether a
\* storage failure happened in the call.
auto_link_entry(pop, ls, nid, entry, min_strength, failRead, failTo) ==
    IF failRead
    THEN [links |-> ls, nextId |-> nid, ret |-> RetRaise, failed |-> TRUE]
    ELSE LET detected == DetectLinksInEntry(pop, entry, min_strength)
             r == LinkDetected(ls, nid, entry, detected, failTo, 0)
         IN  [links |-> r.links, nextId |-> r.nextId, ret |-> RetInt(r.count),
              failed |-> r.count < Len(detected)]

\* the loop of auto_link_all_entries; an exception of auto_link_entry leaves
\* the loop.  done is the sequence of <<entry, count>> of the entries linked.
RECURSIVE LinkAll(_, _, _, _, _, _, _, _, _, _)
LinkAll(pop, ls, nid, todo, min_strength, failReadAt, failPairs, total_links, done, failed) ==
    IF todo = << >>
    THEN [links |-> ls, nextId |-> nid, ret |-> RetInt(total_links), done |-> done,
          failed |-> failed]
    ELSE LET entry == Head(todo)
             r == auto_link_entry(pop, ls, nid, entry, min_strength,
                                  entry \in failReadAt,
                                  {p[2] : p \in {q \in failPairs : q[1] = entry}})
         IN  IF r.ret.tag = "raise"
             THEN [links |-> r.links, nextId |-> r.nextId, ret |-> RetRaise, done |-> done,
                   failed |-> TRUE]
             ELSE LinkAll(pop, r.links, r.nextId, Tail(todo), min_strength,
                          failReadAt, failPairs, total_links + r.ret.v,
                          Append(done, <<entry, r.ret.v>>), failed \/ r.failed)

\* auto_link_all_entries; failQuery is a storage failure of
\* session.query(Entry).all()
auto_link_all_entries(pop, ls, nid, min_strength, failQuery, failReadAt, failPairs) ==
    IF failQuery
    THEN [links |-> ls, nextId |-> nid, ret |-> RetRaise, done |-> << >>, failed |-> TRUE]
    ELSE LinkAll(pop, ls, nid, [i \in 1..NumEntries |-> i], min_strength,
                 failReadAt, failPairs, 0, << >>, FALSE)

(***************************************************************************)
(* Inputs                                                                  *)
(***************************************************************************)
TagNames == {"t1", "t2", "t3", "t4"}
ProjectNames == {"p1", "p2"}

\* min_strength arguments: 0.3, 0.5 and 0.7 for the detector on its own,
\* 0.5 and 0.7 for the auto-linker
MinStrengths == {3, 5, 7}
AutoMinStrengths == {5, 7}

\* manual create_link arguments: the API and the CLI pass no strength (1.0);
\* a caller of the service may pass any
ManualPairs == {<<1, 3>>, <<2, 2>>}
ManualTypes == {REFERENCES}
ManualStrengths == {5, DefaultStrength}
ManualContexts == {TextContext(<<"m">>)}

Entry(title, content, tags, projects) ==
    [title |-> title, content |-> content, tags |-> tags, projects |-> projects]

\* population of the repository runs:
\*   entry 1  "Ab" with content "c",  tags t1 t2 t3, project p1
\*   entry 2  "X"  with content "ab", no tag,        no project
\*   entry 3  "C"  with no content,   tags t1 t2,    project p1
\*   others   "Z"  with content "x",  tag t4,        project p2
Population ==
    [i \in EntryIds |->
        IF i = 1 THEN Entry(<<"A", "b">>, <<"c">>, {"t1", "t2", "t3"}, {"p1"})
        ELSE IF i = 2 THEN Entry(<<"X">>, <<"a", "b">>, {}, {})
        ELSE IF i = 3 THEN Entry(<<"C">>, << >>, {"t1", "t2"}, {"p1"})
        ELSE Entry(<<"Z">>, <<"x">>, {"t4"}, {"p2"})]

\* populations of the detector runs
DetectTitles == { <<"A", "b">>, <<"b">>, <<"b", " ", "c">> }
DetectContents == { << >>, <<"a", "B">>, <<"c">> }
DetectTagSets == { {}, {"t1"}, {"t1", "t2"}, {"t1", "t2", "t3"},
                   {"t1", "t2", "t3", "t4"}, {"t3", "t4"} }
DetectProjectSets == { {}, {"p1"}, {"p2"} }
DetectProfiles ==
    { Entry(t, c, g, p) : t \in DetectTitles, c \in DetectContents,
                          g \in DetectTagSets, p \in DetectProjectSets }
\* the profiles of entry 2 in the detector runs: no content
DetectTargets ==
    { Entry(t, << >>, g, p) : t \in DetectTitles,
                              g \in { {}, {"t3", "t4"}, {"t1", "t2", "t3", "t4"} },
                              p \in { {}, {"p1"} } }
Filler == Entry(<<"c">>, << >>, {"t1", "t2"}, {"p1"})

(***************************************************************************)
(* State                                                                   *)
(*   entries  the entries table: id -> title, content, tags, projects      *)
(*   links    the entry_links table                                        *)
(*   nextId   the number of the next EntryLink row                         *)
(*   last     the last call: its name, its arguments (kept for delete_link,*)
(*            auto_link_entry and detect_links_in_entry), its return value,*)
(*            whether a storage failure happened in it, and for            *)
(*            auto_link_all_entries the entries it linked with their counts*)
(*   versions   the entry_versions table                                   *)
(*   nextEntry  the number of the next Entry row (ids are never reused)    *)
(*   sessions   the create_link calls in flight, one per session: where    *)
(*              the call is and the row its query returned                 *)
(*   loaded     the outgoing_links collections held in memory by the Entry *)
(*              objects of a session (expire_on_commit=False keeps them)   *)
(***************************************************************************)
Call(op, args, ret, fail, done) ==
    [op |-> op, args |-> args, ret |-> ret, fail |-> fail, done |-> done]

NoCall == Call("none", << >>, RetNone, FALSE, << >>)

\* a row of entry_versions
EntryVersion(entry_id, version_number, content) ==
    [entry_id |-> entry_id, version_number |-> version_number, content |-> content]

\* the versions of a population whose entries were created and never updated
FirstVersions(pop) == {EntryVersion(e, 1, pop[e].content) : e \in DOMAIN pop}

\* the sessions of the concurrent runs; a session with no create_link in flight
Sessions == {"A", "B"}
Idle == [pc |-> "idle", args |-> << >>, existing |-> {}]

\* an outgoing_links collection that has not been read yet
Unloaded == [known |-> FALSE, rows |-> {}]

InitAside ==
    /\ sessions = [s \in Sessions |-> Idle]
    /\ loaded = [e \in EntryIds |-> Unloaded]

Init ==
    /\ entries = Population
    /\ links = {}
    /\ nextId = 1
    /\ last = NoCall
    /\ versions = FirstVersions(Population)
    /\ nextEntry = NumEntries + 1
    /\ InitAside

InitDetect ==
    /\ entries \in {[i \in EntryIds |-> IF i = 1 THEN a ELSE IF i = 2 THEN b ELSE Filler] :
                        a \in DetectProfiles, b \in DetectTargets}
    /\ links = {}
    /\ nextId = 1
    /\ last = NoCall
    /\ versions = FirstVersions(entries)
    /\ nextEntry = NumEntries + 1
    /\ InitAside

(***************************************************************************)
(* Actions.  A call meets at most one storage failure, named by fault:     *)
(*   <<"none">>, <<"storage">> (the query or the commit of create_link and *)
(*   delete_link), <<"query">> (the query of all entries),                 *)
(*   <<"read", e>> (the reads of detect_links_in_entry for entry e),       *)
(*   <<"write", e, t>> (the create_link of the edge e -> t).               *)
(***************************************************************************)
NoFault == <<"none">>
RepositoryFaults == {NoFault, <<"storage">>}
\* the pairs whose create_link inside the automatic linker may meet a storage
\* failure: pairs of the population that the detector links
WriteFaultPairs == {<<1, 3>>, <<2, 1>>}
EntryFaults(e) ==
    {NoFault, <<"read", e>>}
        \cup {<<"write", p[1], p[2]>> : p \in {q \in WriteFaultPairs : q[1] = e}}
AllFaults ==
    {NoFault, <<"query">>}
        \cup {<<"read", e>> : e \in EntryIds}
        \cup {<<"write", p[1], p[2]>> : p \in WriteFaultPairs}

FailReadAt(fault) == IF fault[1] = "read" THEN {fault[2]} ELSE {}
FailPairs(fault) == IF fault[1] = "write" THEN {<<fault[2], fault[3]>>} ELSE {}

CreateLink(from_entry_id, to_entry_id, link_type, context, strength, fault) ==
    \E r \in {create_link(links, nextId, from_entry_id, to_entry_id, link_type,
                          context, strength, FALSE, fault # NoFault)} :
        /\ r.nextId <= MaxLinks + 1
        /\ links' = r.links
        /\ nextId' = r.nextId
        /\ last' = Call("createLink", << >>, r.ret, fault # NoFault, << >>)
        /\ UNCHANGED <<entries, aside>>

DeleteLink(link_id, fault) ==
    \E r \in {delete_link(links, link_id, fault # NoFault)} :
        /\ links' = r.links
        /\ last' = Call("deleteLink", <<link_id>>, r.ret, fault # NoFault, << >>)
        /\ UNCHANGED <<entries, nextId, aside>>

AutoLinkEntry(entry, min_strength, fault) ==
    \E r \in {auto_link_entry(entries, links, nextId, entry, min_strength,
                              entry \in FailReadAt(fault),
                              {p[2] : p \in FailPairs(fault)})} :
        /\ r.nextId <= MaxLinks + 1
        /\ links' = r.links
        /\ nextId' = r.nextId
        /\ last' = Call("autoLinkEntry", <<entry, min_strength>>, r.ret, r.failed, << >>)
        /\ UNCHANGED <<entries, aside>>

AutoLinkAll(min_strength, fault) ==
    \E r \in {auto_link_all_entries(entries, links, nextId, min_strength,
                                    fault = <<"query">>, FailReadAt(fault),
                                    FailPairs(fault))} :
        /\ r.nextId <= MaxLinks + 1
        /\ links' = r.links
        /\ nextId' = r.nextId
        /\ last' = Call("autoLinkAll", << >>, r.ret, r.failed, r.done)
        /\ UNCHANGED <<entries, aside>>

\* detect_links_in_entry called on its own (the detector runs)
DetectLinks(entry, min_strength) ==
    /\ last' = Call("detectLinks", <<entry, min_strength>>,
                    RetList(DetectLinksInEntry(entries, entry, min_strength)),
                    FALSE, << >>)
    /\ UNCHANGED <<entries, links, nextId, aside>>

Next ==
    \/ \E p \in ManualPairs, ty \in ManualTypes, c \in ManualContexts,
          s \in ManualStrengths, fault \in RepositoryFaults :
            CreateLink(p[1], p[2], ty, c, s, fault)
    \/ \E id \in 1..MaxLinks, fault \in RepositoryFaults : DeleteLink(id, fault)
    \/ \E e \in EntryIds, m \in AutoMinStrengths : \E fault \in EntryFaults(e) :
            AutoLinkEntry(e, m, fault)
    \/ \E m \in AutoMinStrengths, fault \in AllFaults : AutoLinkAll(m, fault)

Spec == Init /\ [][Next]_vars

NextDetect == \E e \in EntryIds, m \in MinStrengths : DetectLinks(e, m)

SpecDetect == InitDetect /\ [][NextDetect]_vars

\* populations of the detector runs on empty text: entries 1 and 2 with an
\* empty or a one-word title, an empty or a one-word content
EmptyTextProfiles ==
    { Entry(t, c, g, p) : t \in { << >>, <<"A", "b">> }, c \in { << >>, <<"c">> },
                          g \in { {}, {"t1", "t2"} }, p \in { {}, {"p1"} } }

InitDetectEmpty ==
    /\ entries \in {[i \in EntryIds |-> IF i = 1 THEN a ELSE IF i = 2 THEN b ELSE Filler] :
                        a \in EmptyTextProfiles, b \in EmptyTextProfiles}
    /\ links = {}
    /\ nextId = 1
    /\ last = NoCall
    /\ versions = FirstVersions(entries)
    /\ nextEntry = NumEntries + 1
    /\ InitAside

SpecDetectEmpty == InitDetectEmpty /\ [][NextDetect]_vars

(***************************************************************************)
(* Link queries: LinkService.get_links_from_entry / get_links_to_entry and *)
(* find_related_entries                                                    *)
(*                                                                         *)
(* No query of the source orders its rows beyond the key it names, and the *)
(* relationships outgoing_links / incoming_links carry no order_by: the    *)
(* order in which the database hands out the rows of entry_links is an     *)
(* input of every call, scan, a sequence holding every stored row once.    *)
(* Scores are counted in thousandths (0.135 is 135): a strength in tenths  *)
(* times a weight in hundredths, or two strengths times a weight in tenths.*)
(***************************************************************************)
OutgoingWeight == 100
IncomingWeight == 80
IndirectWeight == 3

\* the orders in which the rows of entry_links may be read
Scans(ls) ==
    {sc \in [1..Cardinality(ls) -> ls] : \A l \in ls : \E i \in 1..Cardinality(ls) : sc[i] = l}

\* one step of a stable descending sort of <<key, item>> pairs: x goes
\* behind every pair whose key is at least its own
InsertDesc(sorted, x) ==
    LET k == Cardinality({i \in 1..Len(sorted) : sorted[i][1] >= x[1]})
    IN  SubSeq(sorted, 1, k) \o <<x>> \o SubSeq(sorted, k + 1, Len(sorted))

RECURSIVE SortDescFrom(_, _)
SortDescFrom(sorted, rest) ==
    IF rest = << >> THEN sorted
    ELSE SortDescFrom(InsertDesc(sorted, Head(rest)), Tail(rest))

\* sorted(pairs, key=lambda x: x[0], reverse=True), list.sort(reverse=True)
\* and ORDER BY key DESC over rows read in the order of pairs: equal keys
\* keep the order they came in
SortDesc(pairs) == SortDescFrom(<< >>, pairs)

\* ORDER BY EntryLink.strength.desc() over rows
OrderByStrengthDesc(rows) ==
    LET sorted == SortDesc([i \in 1..Len(rows) |-> <<rows[i].strength, rows[i]>>])
    IN  [i \in 1..Len(sorted) |-> sorted[i][2]]

\* get_links_from_entry(entry_id)
get_links_from_entry(scan, entry_id) ==
    OrderByStrengthDesc(SelectSeq(scan, LAMBDA l : l.from_entry_id = entry_id))

\* get_links_to_entry(entry_id)
get_links_to_entry(scan, entry_id) ==
    OrderByStrengthDesc(SelectSeq(scan, LAMBDA l : l.to_entry_id = entry_id))

\* entry.outgoing_links and entry.incoming_links
outgoing_links(scan, entry) == SelectSeq(scan, LAMBDA l : l.from_entry_id = entry)
incoming_links(scan, entry) == SelectSeq(scan, LAMBDA l : l.to_entry_id = entry)

\* related_scores[key] = max(related_scores[key], value)
AccumulateMax(related_scores, key, value) ==
    IF \E i \in 1..Len(related_scores) : related_scores[i][1] = key
    THEN [i \in 1..Len(related_scores) |->
            IF related_scores[i][1] = key
            THEN <<key, Max(related_scores[i][2], value)>>
            ELSE related_scores[i]]
    ELSE Append(related_scores, <<key, value>>)

\* related_scores[key] += value on a defaultdict(float); the dict is the
\* sequence of its <<key, score>> items in insertion order
Accumulate(related_scores, key, value) ==
    IF \E i \in 1..Len(related_scores) : related_scores[i][1] = key
    THEN [i \in 1..Len(related_scores) |->
            IF related_scores[i][1] = key
            THEN <<key, related_scores[i][2] + value>>
            ELSE related_scores[i]]
    ELSE Append(related_scores, <<key, value>>)

RECURSIVE AccumulateAll(_, _)
AccumulateAll(related_scores, contributions) ==
    IF contributions = << >> THEN related_scores
    ELSE AccumulateAll(Accumulate(related_scores, Head(contributions)[1],
                                  Head(contributions)[2]),
                       Tail(contributions))

\* the loop over entry.outgoing_links
DirectOutgoing(scan, entry) ==
    LET out == outgoing_links(scan, entry)
    IN  [i \in 1..Len(out) |-> <<out[i].to_entry_id, out[i].strength * OutgoingWeight>>]

\* the loop over entry.incoming_links
DirectIncoming(scan, entry) ==
    LET inc == incoming_links(scan, entry)
    IN  [i \in 1..Len(inc) |-> <<inc[i].from_entry_id, inc[i].strength * IncomingWeight>>]

\* the nested loop over link.to_entry.outgoing_links
RECURSIVE IndirectFrom(_, _, _)
IndirectFrom(scan, entry, out) ==
    IF out = << >> THEN << >>
    ELSE LET link == Head(out)
             hops == SelectSeq(outgoing_links(scan, link.to_entry_id),
                               LAMBDA indirect_link : indirect_link.to_entry_id # entry)
         IN  [i \in 1..Len(hops) |->
                <<hops[i].to_entry_id, link.strength * hops[i].strength * IndirectWeight>>]
             \o IndirectFrom(scan, entry, Tail(out))

\* find_related_entries(entry, max_results, include_indirect): the list of
\* <<entry id, score>>
find_related_entries(pop, scan, entry, max_results, include_indirect) ==
    LET related_scores ==
            AccumulateAll(<< >>,
                DirectOutgoing(scan, entry)
                    \o DirectIncoming(scan, entry)
                    \o (IF include_indirect
                        THEN IndirectFrom(scan, entry, outgoing_links(scan, entry))
                        ELSE << >>))
        sorted == SortDesc([i \in 1..Len(related_scores) |->
                                <<related_scores[i][2], related_scores[i][1]>>])
        sorted_entries == SubSeq(sorted, 1, Min(max_results, Len(sorted)))
        found == SelectSeq(sorted_entries, LAMBDA x : x[2] \in DOMAIN pop)
    IN  [i \in 1..Len(found) |-> <<found[i][2], found[i][1]>>]

\* arguments of the query runs: the triples and strengths of create_link
\* (0.0, 0.5 and 0.9), max_results
GraphEdges == {<<1, 2, REFERENCES>>, <<2, 1, REFERENCES>>,
               <<2, 3, REFERENCES>>, <<1, 3, REFERENCES>>}
GraphStrengths == {0, 5, 9}
MaxResultsValues == {1, NumEntries}

GetLinksFrom(entry_id, scan) ==
    /\ last' = Call("outgoing", <<entry_id>>,
                    RetList(get_links_from_entry(scan, entry_id)), FALSE, << >>)
    /\ UNCHANGED <<entries, links, nextId, aside>>

GetLinksTo(entry_id, scan) ==
    /\ last' = Call("incoming", <<entry_id>>,
                    RetList(get_links_to_entry(scan, entry_id)), FALSE, << >>)
    /\ UNCHANGED <<entries, links, nextId, aside>>

FindRelated(entry, max_results, include_indirect, scan) ==
    /\ last' = Call("findRelated", <<entry, max_results, include_indirect>>,
                    RetList(find_related_entries(entries, scan, entry, max_results,
                                                 include_indirect)),
                    FALSE, << >>)
    /\ UNCHANGED <<entries, links, nextId, aside>>

NextGraph ==
    \/ \E e \in GraphEdges, s \in GraphStrengths :
            CreateLink(e[1], e[2], e[3], NoContext, s, NoFault)
    \/ \E e \in EntryIds, scan \in Scans(links) : GetLinksFrom(e, scan)
    \/ \E e \in EntryIds, scan \in Scans(links) : GetLinksTo(e, scan)
    \/ \E e \in EntryIds, m \in MaxResultsValues, ind \in BOOLEAN, scan \in Scans(links) :
            FindRelated(e, m, ind, scan)

SpecGraph == Init /\ [][NextGraph]_vars

(***************************************************************************)
(* Clusters and statistics: LinkService.find_clusters / get_graph_stats    *)
(*                                                                         *)
(* A dict is the sequence of its <<key, value>> items in insertion order.  *)
(* A cluster is the set of its entry ids (list(cluster) has the order of a *)
(* Python set, which the model leaves out).                                *)
(***************************************************************************)
MostConnectedLimit == 10

RetStats(s) == [tag |-> "stats", v |-> s]

\* adjacency[key].add(value) on a defaultdict(set)
AdjacencyAdd(adjacency, key, value) ==
    IF \E i \in 1..Len(adjacency) : adjacency[i][1] = key
    THEN [i \in 1..Len(adjacency) |->
            IF adjacency[i][1] = key
            THEN <<key, adjacency[i][2] \cup {value}>>
            ELSE adjacency[i]]
    ELSE Append(adjacency, <<key, {value}>>)

\* the adjacency loop without the reverse direction
RECURSIVE BuildAdjacencyDirected(_, _)
BuildAdjacencyDirected(adjacency, rows) ==
    IF rows = << >> THEN adjacency
    ELSE LET link == Head(rows)
         IN  BuildAdjacencyDirected(
                AdjacencyAdd(adjacency, link.from_entry_id, link.to_entry_id),
                Tail(rows))

\* the loop over session.query(EntryLink).all()
RECURSIVE BuildAdjacency(_, _)
BuildAdjacency(adjacency, rows) ==
    IF rows = << >> THEN adjacency
    ELSE LET link == Head(rows)
         IN  BuildAdjacency(
                AdjacencyAdd(AdjacencyAdd(adjacency, link.from_entry_id, link.to_entry_id),
                             link.to_entry_id, link.from_entry_id),
                Tail(rows))

\* adjacency[node_id]
Neighbors(adjacency, node_id) ==
    IF \E i \in 1..Len(adjacency) : adjacency[i][1] = node_id
    THEN adjacency[CHOOSE i \in 1..Len(adjacency) : adjacency[i][1] = node_id][2]
    ELSE {}

\* dfs(node_id, cluster): the visited set after the call; the nodes it adds
\* to visited are the nodes it adds to cluster.  The neighbours are taken
\* in ascending order; the set the call ends with does not depend on it.
RECURSIVE dfs(_, _, _)
RECURSIVE VisitNeighbors(_, _, _)
VisitNeighbors(adjacency, todo, visited) ==
    IF todo = {} THEN visited
    ELSE LET neighbor == SetMin(todo)
         IN  VisitNeighbors(adjacency, todo \ {neighbor},
                            IF neighbor \notin visited
                            THEN dfs(adjacency, neighbor, visited)
                            ELSE visited)

dfs(adjacency, node_id, visited) ==
    VisitNeighbors(adjacency, Neighbors(adjacency, node_id), visited \cup {node_id})

\* the loop over adjacency.keys()
RECURSIVE Components(_, _, _, _, _)
Components(adjacency, keys, visited, clusters, min_cluster_size) ==
    IF keys = << >> THEN clusters
    ELSE LET entry_id == Head(keys)
         IN  IF entry_id \in visited
             THEN Components(adjacency, Tail(keys), visited, clusters, min_cluster_size)
             ELSE LET after == dfs(adjacency, entry_id, visited)
                      cluster == after \ visited
                  IN  Components(adjacency, Tail(keys), after,
                                 IF Cardinality(cluster) >= min_cluster_size
                                 THEN Append(clusters, cluster) ELSE clusters,
                                 min_cluster_size)

\* a sort by ascending size that is then reversed
SortClustersReversed(clusters) ==
    LET sorted == SortDesc([i \in 1..Len(clusters) |->
                                <<0 - Cardinality(clusters[i]), clusters[i]>>])
    IN  [i \in 1..Len(sorted) |-> sorted[Len(sorted) + 1 - i][2]]

\* clusters.sort(key=len, reverse=True)
SortClusters(clusters) ==
    LET sorted == SortDesc([i \in 1..Len(clusters) |->
                                <<Cardinality(clusters[i]), clusters[i]>>])
    IN  [i \in 1..Len(sorted) |-> sorted[i][2]]

\* find_clusters(min_cluster_size)
find_clusters(scan, min_cluster_size) ==
    LET adjacency == BuildAdjacency(<< >>, scan)
        keys == [i \in 1..Len(adjacency) |-> adjacency[i][1]]
    IN  SortClusters(Components(adjacency, keys, {}, << >>, min_cluster_size))

\* round(n / d, 2) in hundredths
RoundHundredths(n, d) == (200 * n + d) \div (2 * d)

\* the rows of the most_connected query: the entries joined to an edge by
\* either end, with the number of joined edges, by descending count, cut at
\* the limit.  (The order of equal counts is the database's; it never shows,
\* see get_graph_stats.)
MostConnectedRows(pop, ls) ==
    LET joined == {e \in DOMAIN pop :
                        \E l \in ls : l.from_entry_id = e \/ l.to_entry_id = e}
        ids == SelectSeq([i \in 1..NumEntries |-> i], LAMBDA e : e \in joined)
        sorted == SortDesc([i \in 1..Len(ids) |->
                    <<Cardinality({l \in ls : l.from_entry_id = ids[i]
                                                \/ l.to_entry_id = ids[i]}),
                      ids[i]>>])
        rows == [i \in 1..Len(sorted) |-> <<sorted[i][2], pop[sorted[i][2]].title, sorted[i][1]>>]
    IN  SubSeq(rows, 1, Min(MostConnectedLimit, Len(rows)))

\* get_graph_stats(): the rows of most_connected are (id, title, count)
\* tuples, and the comprehension of the return statement reads e.id on the
\* id of the first row, a str: AttributeError whenever there is a row
get_graph_stats(pop, ls) ==
    LET total_entries == Cardinality(DOMAIN pop)
        total_links == Cardinality(ls)
        entries_with_links == Cardinality({l.from_entry_id : l \in ls})
        orphaned_entries == total_entries - entries_with_links
        avg_links == IF total_entries > 0
                     THEN RoundHundredths(total_links, total_entries) ELSE 0
        most_connected == MostConnectedRows(pop, ls)
        link_types == {<<lt, Cardinality({l \in ls : l.link_type = lt})>> :
                            lt \in {l.link_type : l \in ls}}
    IN  IF most_connected # << >>
        THEN RetRaise
        ELSE RetStats([total_entries |-> total_entries,
                       total_links |-> total_links,
                       entries_with_links |-> entries_with_links,
                       orphaned_entries |-> orphaned_entries,
                       avg_links_per_entry |-> avg_links,
                       most_connected |-> << >>,
                       link_types |-> link_types])

\* arguments of the cluster runs: the pairs and strengths of create_link
\* (1.0, the default, and 1.5), min_cluster_size
ClusterPairs == {<<1, 2>>, <<3, 2>>, <<2, 2>>, <<3, 3>>}
ClusterStrengths == {DefaultStrength, 15}
MinClusterSizes == {1, 2, 3}

\* the endpoints of the rows in the order they were read
Endpoints(scan) == [i \in 1..Len(scan) |-> <<scan[i].from_entry_id, scan[i].to_entry_id>>]

FindClusters(min_cluster_size, scan) ==
    /\ last' = Call("findClusters", <<min_cluster_size, Endpoints(scan)>>,
                    RetList(find_clusters(scan, min_cluster_size)), FALSE, << >>)
    /\ UNCHANGED <<entries, links, nextId, aside>>

GraphStats ==
    /\ last' = Call("graphStats", << >>, get_graph_stats(entries, links), FALSE, << >>)
    /\ UNCHANGED <<entries, links, nextId, aside>>

NextClusters ==
    \/ \E p \in ClusterPairs, s \in ClusterStrengths :
            CreateLink(p[1], p[2], REFERENCES, NoContext, s, NoFault)
    \/ \E m \in MinClusterSizes, scan \in Scans(links) : FindClusters(m, scan)
    \/ GraphStats

SpecClusters == Init /\ [][NextClusters]_vars

(***************************************************************************)
(* Entry Service: kb/services/entry_service.py (EntryService) over the     *)
(* entries and entry_versions tables.  The keys of the entries function    *)
(* are the ids of the stored entries.  The SHA-256 content hash is taken   *)
(* to be injective, so two hashes differ exactly when the contents do.     *)
(***************************************************************************)
RetEntry(entry_id) == [tag |-> "entry", v |-> entry_id]

\* an Optional field of EntryUpdate: None, or a value
None == [some |-> FALSE]
Some(v) == [some |-> TRUE, v |-> v]
\* Python truth of an Optional[str]: neither None nor the empty string
Truthy(x) == x.some /\ x.v # << >>

EntryUpdate(title, content, tags, projects) ==
    [title |-> title, content |-> content, tags |-> tags, projects |-> projects]

get_entry(pop, entry_id) ==
    IF entry_id \in DOMAIN pop THEN RetEntry(entry_id) ELSE RetNone

create_entry(pop, vs, ne, title, content, tags, projects) ==
    [entries |-> [e \in DOMAIN pop \cup {ne} |->
                      IF e = ne THEN Entry(title, content, tags, projects) ELSE pop[e]],
     versions |-> vs \cup {EntryVersion(ne, 1, content)},
     nextEntry |-> ne + 1,
     ret |-> RetEntry(ne)]

\* the version_number of the row the query for the latest version returns,
\* 0 when the entry has no version
LatestVersionNumber(vs, entry_id) ==
    LET numbers == {v.version_number : v \in {w \in vs : w.entry_id = entry_id}}
    IN  IF numbers = {} THEN 0 ELSE SetMax(numbers)

\* update_entry giving the new version the number of the latest one
update_entry_same_number(pop, vs, entry_id, update_data) ==
    IF get_entry(pop, entry_id) = RetNone
    THEN [entries |-> pop, versions |-> vs, ret |-> RetRaise]
    ELSE LET entry == pop[entry_id]
             new_title == IF Truthy(update_data.title) /\ update_data.title.v # entry.title
                          THEN update_data.title.v ELSE entry.title
             new_content == Truthy(update_data.content)
                                /\ update_data.content.v # entry.content
             latest == LatestVersionNumber(vs, entry_id)
             new_version_num == IF latest # 0 THEN latest ELSE 1
         IN  [entries |-> [pop EXCEPT ![entry_id] =
                              Entry(new_title,
                                    IF new_content THEN update_data.content.v
                                    ELSE entry.content,
                                    IF update_data.tags.some THEN update_data.tags.v
                                    ELSE entry.tags,
                                    IF update_data.projects.some THEN update_data.projects.v
                                    ELSE entry.projects)],
              versions |-> IF new_content
                           THEN vs \cup {EntryVersion(entry_id, new_version_num,
                                                      update_data.content.v)}
                           ELSE vs,
              ret |-> RetEntry(entry_id)]

update_entry(pop, vs, entry_id, update_data) ==
    IF get_entry(pop, entry_id) = RetNone
    THEN [entries |-> pop, versions |-> vs, ret |-> RetRaise]
    ELSE LET entry == pop[entry_id]
             new_title == IF Truthy(update_data.title) /\ update_data.title.v # entry.title
                          THEN update_data.title.v ELSE entry.title
             new_content == Truthy(update_data.content)
                                /\ update_data.content.v # entry.content
             latest == LatestVersionNumber(vs, entry_id)
             new_version_num == IF latest # 0 THEN latest + 1 ELSE 1
         IN  [entries |-> [pop EXCEPT ![entry_id] =
                              Entry(new_title,
                                    IF new_content THEN update_data.content.v
                                    ELSE entry.content,
                                    IF update_data.tags.some THEN update_data.tags.v
                                    ELSE entry.tags,
                                    IF update_data.projects.some THEN update_data.projects.v
                                    ELSE entry.projects)],
              versions |-> IF new_content
                           THEN vs \cup {EntryVersion(entry_id, new_version_num,
                                                      update_data.content.v)}
                           ELSE vs,
              ret |-> RetEntry(entry_id)]

\* delete_entry answering True without deleting the row
delete_entry_keep_row(pop, vs, ls, entry_id) ==
    IF get_entry(pop, entry_id) = RetNone
    THEN [entries |-> pop, versions |-> vs, links |-> ls, ret |-> RetBool(FALSE)]
    ELSE [entries |-> pop, versions |-> vs, links |-> ls, ret |-> RetBool(TRUE)]

\* session.delete(entry) cascades to entry.versions, entry.outgoing_links and
\* entry.incoming_links
delete_entry(pop, vs, ls, entry_id) ==
    IF get_entry(pop, entry_id) = RetNone
    THEN [entries |-> pop, versions |-> vs, links |-> ls, ret |-> RetBool(FALSE)]
    ELSE [entries |-> [e \in DOMAIN pop \ {entry_id} |-> pop[e]],
          versions |-> {v \in vs : v.entry_id # entry_id},
          links |-> {l \in ls : l.from_entry_id # entry_id /\ l.to_entry_id # entry_id},
          ret |-> RetBool(TRUE)]

\* arguments of the entry runs: titles and contents of create_entry, the
\* fields of EntryUpdate (None, for the content also the empty string, a value)
CreateTitles == {<<"a">>}
CreateContents == {<<"x">>}
UpdateTitles == {None, Some(<<"b">>)}
UpdateContents == {None, Some(<< >>), Some(<<"x">>), Some(<<"y">>)}

InitEmpty ==
    /\ entries = << >>
    /\ links = {}
    /\ nextId = 1
    /\ last = NoCall
    /\ versions = {}
    /\ nextEntry = 1
    /\ InitAside

CreateEntry(title, content, tags, projects) ==
    \E r \in {create_entry(entries, versions, nextEntry, title, content, tags, projects)} :
        /\ nextEntry <= NumEntries
        /\ entries' = r.entries
        /\ versions' = r.versions
        /\ nextEntry' = r.nextEntry
        /\ last' = Call("createEntry", <<title, content>>, r.ret, FALSE, << >>)
        /\ UNCHANGED <<links, nextId, sessions, loaded>>

UpdateEntry(entry_id, update_data) ==
    \E r \in {update_entry(entries, versions, entry_id, update_data)} :
        /\ LatestVersionNumber(r.versions, entry_id) <= MaxVersions
        /\ entries' = r.entries
        /\ versions' = r.versions
        /\ last' = Call("updateEntry", <<entry_id, update_data>>, r.ret, FALSE, << >>)
        /\ UNCHANGED <<links, nextId, nextEntry, sessions, loaded>>

DeleteEntry(entry_id) ==
    \E r \in {delete_entry(entries, versions, links, entry_id)} :
        /\ entries' = r.entries
        /\ versions' = r.versions
        /\ links' = r.links
        /\ last' = Call("deleteEntry", <<entry_id>>, r.ret, FALSE, << >>)
        /\ UNCHANGED <<nextId, nextEntry, sessions, loaded>>

GetEntry(entry_id) ==
    /\ last' = Call("getEntry", <<entry_id>>, get_entry(entries, entry_id), FALSE, << >>)
    /\ UNCHANGED <<entries, links, nextId, aside>>

NextVersions ==
    \/ \E t \in CreateTitles, c \in CreateContents : CreateEntry(t, c, {}, {})
    \/ \E e \in EntryIds, t \in UpdateTitles, c \in UpdateContents :
            UpdateEntry(e, EntryUpdate(t, c, None, None))

SpecVersions == InitEmpty /\ [][NextVersions]_vars

\* arguments of the store runs: the endpoints of create_link, which are ids
\* that create_link does not look up in the entries table
StorePairs == {<<1, 2>>, <<2, 3>>}

\* create_link under one of the two engines of kb/core/database.py.  SQLite
\* is opened without PRAGMA foreign_keys, so the INSERT of a row whose
\* endpoint is no entry succeeds; PostgreSQL rejects it at the commit, which
\* create_link answers with a rollback and None.
StoreLink(from_entry_id, to_entry_id, strength, foreign_keys) ==
    CreateLink(from_entry_id, to_entry_id, REFERENCES, NoContext, strength,
               IF /\ foreign_keys
                  /\ ~({from_entry_id, to_entry_id} \subseteq DOMAIN entries)
                  /\ Existing(links, from_entry_id, to_entry_id, REFERENCES) = {}
               THEN <<"storage">> ELSE NoFault)

NextStore ==
    \/ \E t \in CreateTitles, c \in CreateContents : CreateEntry(t, c, {}, {})
    \/ \E e \in EntryIds : DeleteEntry(e)
    \/ \E e \in EntryIds : GetEntry(e)
    \/ \E p \in StorePairs, foreign_keys \in BOOLEAN :
            StoreLink(p[1], p[2], DefaultStrength, foreign_keys)
    \/ \E id \in 1..MaxLinks : DeleteLink(id, NoFault)

SpecStore == InitEmpty /\ [][NextStore]_vars

\* arguments of the runs that query a store built by create_link,
\* delete_link and the automatic linker
RelatedPairs == {<<2, 2>>, <<1, 2>>}
RelatedStrengths == {5}

NextRelated ==
    \/ \E p \in RelatedPairs, s \in RelatedStrengths :
            CreateLink(p[1], p[2], REFERENCES, NoContext, s, NoFault)
    \/ \E id \in 1..MaxLinks : DeleteLink(id, NoFault)
    \/ \E e \in EntryIds, m \in AutoMinStrengths : AutoLinkEntry(e, m, NoFault)
    \/ \E e \in EntryIds, m \in MaxResultsValues, ind \in BOOLEAN, scan \in Scans(links) :
            FindRelated(e, m, ind, scan)

SpecRelated == Init /\ [][NextRelated]_vars

\* arguments of the runs that edit entries between runs of the automatic
\* linker: one edit each of a title, a content, the tags and the projects
EditCases ==
    {<<1, EntryUpdate(Some(<<"Z">>), None, None, None)>>,
     <<3, EntryUpdate(None, Some(<<"a", "b">>), None, None)>>,
     <<2, EntryUpdate(None, None, Some({"t1", "t2"}), None)>>,
     <<3, EntryUpdate(None, None, None, Some({"p2"}))>>}

NextEdits ==
    \/ \E c \in EditCases : UpdateEntry(c[1], c[2])
    \/ \E e \in EntryIds, m \in AutoMinStrengths : AutoLinkEntry(e, m, NoFault)
    \/ \E m \in AutoMinStrengths : AutoLinkAll(m, NoFault)

SpecEdits == Init /\ [][NextEdits]_vars

(***************************************************************************)
(* Concurrent sessions.  Every request has its own Session                 *)
(* (Database.get_session), so two create_link calls run as two             *)
(* transactions on one store: the query of lines 50-56 and the commit of   *)
(* line 63 or 80 of each are separate statements, and statements of the    *)
(* other call may come between them.  Each statement reads the committed   *)
(* rows.                                                                   *)
(***************************************************************************)
\* a call that has made its query: its arguments and the row it was answered
InFlight(from_entry_id, to_entry_id, link_type, context, strength, is_automatic, existing) ==
    [pc |-> "queried",
     args |-> <<from_entry_id, to_entry_id, link_type, context, strength, is_automatic>>,
     existing |-> existing]

\* lines 50-56: the row of the triple, if any (.first())
create_link_query(ls, from_entry_id, to_entry_id, link_type) ==
    LET found == Existing(ls, from_entry_id, to_entry_id, link_type)
    IN  IF found = {} THEN {}
        ELSE {CHOOSE l \in found : \A o \in found : l.id <= o.id}

\* lines 58-85 after the query.  With a row in hand the call compares with
\* the strength it read and, if greater, its commit is an UPDATE of that row
\* by id (no row of that id left: the flush raises).  With no row in hand
\* its commit is an INSERT, which uq_entry_link rejects when the triple has
\* been stored since.  Whatever raises is answered with a rollback and None.
create_link_commit(ls, nid, call) ==
    LET from_entry_id == call.args[1]
        to_entry_id == call.args[2]
        link_type == call.args[3]
        context == call.args[4]
        strength == call.args[5]
        is_automatic == call.args[6]
    IN  IF call.existing # {}
        THEN LET existing == CHOOSE l \in call.existing : TRUE
                 stored == {l \in ls : l.id = existing.id}
             IN  IF strength > existing.strength
                 THEN IF stored = {}
                      THEN [links |-> ls, nextId |-> nid, ret |-> RetNone]
                      ELSE LET updated == [existing EXCEPT !.strength = strength,
                                                           !.context = context]
                           IN  [links |-> (ls \ stored) \cup {updated},
                                nextId |-> nid,
                                ret |-> RetLink(updated)]
                 ELSE [links |-> ls, nextId |-> nid, ret |-> RetLink(existing)]
        ELSE IF Existing(ls, from_entry_id, to_entry_id, link_type) # {}
             THEN [links |-> ls, nextId |-> nid, ret |-> RetNone]
             ELSE LET link == [id |-> nid,
                               from_entry_id |-> from_entry_id,
                               to_entry_id |-> to_entry_id,
                               link_type |-> link_type,
                               context |-> context,
                               strength |-> strength,
                               is_automatic |-> is_automatic]
                  IN  [links |-> ls \cup {link}, nextId |-> nid + 1, ret |-> RetLink(link)]

\* arguments of the concurrent runs: strengths 0.5, 0.7 and 0.9
SessionPairs == {<<1, 2>>, <<2, 3>>}
SessionStrengths == {5, 7, 9}

CreateLinkQuery(s, from_entry_id, to_entry_id, link_type, context, strength) ==
    /\ sessions[s].pc = "idle"
    /\ sessions' = [sessions EXCEPT ![s] =
                        InFlight(from_entry_id, to_entry_id, link_type, context, strength, FALSE,
                                 create_link_query(links, from_entry_id, to_entry_id,
                                                   link_type))]
    /\ UNCHANGED <<entries, links, nextId, last, versions, nextEntry, loaded>>

CreateLinkCommit(s) ==
    /\ sessions[s].pc = "queried"
    /\ \E r \in {create_link_commit(links, nextId, sessions[s])} :
        /\ r.nextId <= MaxLinks + 1
        /\ links' = r.links
        /\ nextId' = r.nextId
        /\ last' = Call("createLink", <<s>>, r.ret, FALSE, << >>)
    /\ sessions' = [sessions EXCEPT ![s] = Idle]
    /\ UNCHANGED <<entries, versions, nextEntry, loaded>>

NextSessions ==
    \/ \E s \in Sessions, p \in SessionPairs, strength \in SessionStrengths :
            CreateLinkQuery(s, p[1], p[2], REFERENCES, NoContext, strength)
    \/ \E s \in Sessions : CreateLinkCommit(s)

SpecSessions == Init /\ [][NextSessions]_vars

(***************************************************************************)
(* Suggestions: LinkService.suggest_links_for_entry.  It reads             *)
(* entry.outgoing_links, the relationship collection of the Entry object.  *)
(* The collection is read from the store the first time the object is      *)
(* asked for it and then kept: the sessions of kb/core/database.py are     *)
(* made with expire_on_commit=False, and create_link adds its row by       *)
(* from_entry_id, not through the collection.  A new session loads its     *)
(* objects anew.                                                           *)
(***************************************************************************)
SuggestMinStrength == 3

\* entry.outgoing_links of an Entry object of the session
OutgoingCollection(held, ls, entry) ==
    IF held[entry].known THEN held[entry].rows
    ELSE {l \in ls : l.from_entry_id = entry}

\* suggest_links_for_entry(entry, limit), for limit >= 0
suggest_links_for_entry(pop, collection, entry, limit) ==
    LET suggestions == DetectLinksInEntry(pop, entry, SuggestMinStrength)
        existing_links == {l.to_entry_id : l \in collection}
        kept == SelectSeq(suggestions, LAMBDA s : s.to_entry_id \notin existing_links)
        sorted == SortDesc([i \in 1..Len(kept) |-> <<kept[i].strength, kept[i]>>])
    IN  [i \in 1..Min(limit, Len(sorted)) |-> sorted[i][2]]

\* population of the suggestion runs:
\*   entry 1  "Ab" with content "c",  tags t1 t2 t3, project p1
\*   entry 2  "X"  with content "ab", tags t1 t2,    no project
\*   entry 3  "C"  with no content,   no tag,        project p1
\*   others   "Z"  with content "x",  tag t4,        project p2
SuggestPopulation ==
    [i \in EntryIds |->
        IF i = 1 THEN Entry(<<"A", "b">>, <<"c">>, {"t1", "t2", "t3"}, {"p1"})
        ELSE IF i = 2 THEN Entry(<<"X">>, <<"a", "b">>, {"t1", "t2"}, {})
        ELSE IF i = 3 THEN Entry(<<"C">>, << >>, {}, {"p1"})
        ELSE Entry(<<"Z">>, <<"x">>, {"t4"}, {"p2"})]
SuggestLimits == {1, NumEntries}
SuggestAutoStrengths == {SuggestMinStrength, 5}

InitSuggest ==
    /\ entries = SuggestPopulation
    /\ links = {}
    /\ nextId = 1
    /\ last = NoCall
    /\ versions = FirstVersions(SuggestPopulation)
    /\ nextEntry = NumEntries + 1
    /\ InitAside

SuggestLinks(entry, limit) ==
    \E collection \in {OutgoingCollection(loaded, links, entry)} :
        /\ loaded' = [loaded EXCEPT ![entry] = [known |-> TRUE, rows |-> collection]]
        /\ last' = Call("suggestLinks", <<entry, limit>>,
                        RetList(suggest_links_for_entry(entries, collection, entry, limit)),
                        FALSE, << >>)
        /\ UNCHANGED <<entries, links, nextId, versions, nextEntry, sessions>>

\* the session is closed and the next call works on a new one
NewSession ==
    /\ loaded' = [e \in EntryIds |-> Unloaded]
    /\ UNCHANGED <<entries, links, nextId, last, versions, nextEntry, sessions>>

NextSuggest ==
    \/ \E e \in EntryIds, limit \in SuggestLimits : SuggestLinks(e, limit)
    \/ \E e \in EntryIds, m \in SuggestAutoStrengths : AutoLinkEntry(e, m, NoFault)
    \/ NewSession

SpecSuggest == InitSuggest /\ [][NextSuggest]_vars

(***************************************************************************)
(* Properties                                                              *)
(***************************************************************************)
Triple(l) == <<l.from_entry_id, l.to_entry_id, l.link_type>>
LinkIds(ls) == {l.id : l \in ls}
ReturnedExisting == /\ last.op = "createLink"
                    /\ last.ret.tag = "link"
                    /\ last.ret.v.id < nextId - 1

\* C1: after any sequence of createLink, autoLinkEntry, autoLinkAll and
\* deleteLink calls the edge store holds at most one edge per
\* (from_entry_id, to_entry_id, link_type) triple.
C1_OneEdgePerTriple ==
    \A a \in links, b \in links : Triple(a) = Triple(b) => a = b

\* a second edge was stored and createLink was then called again for a
\* triple that is in the store
C1_Witness ==
    /\ ReturnedExisting
    /\ Cardinality(links) = 2

\* C2: createLink for a triple that already has a stored edge creates no new
\* edge (storage failure or not); without a storage failure it returns that
\* edge, with strength and context set to the new values if the new strength
\* is strictly greater, and unchanged otherwise.
C2_UpsertStep ==
    \A p \in ManualPairs, ty \in ManualTypes, c \in ManualContexts,
       s \in ManualStrengths, fault \in RepositoryFaults :
        (/\ Existing(links, p[1], p[2], ty) # {}
         /\ CreateLink(p[1], p[2], ty, c, s, fault))
        => LET existing == CHOOSE l \in Existing(links, p[1], p[2], ty) : TRUE
           IN  /\ LinkIds(links') = LinkIds(links)
               /\ Cardinality(links') = Cardinality(links)
               /\ fault = NoFault =>
                    /\ last'.ret.tag = "link"
                    /\ last'.ret.v \in links'
                    /\ last'.ret.v.id = existing.id
                    /\ IF s > existing.strength
                       THEN /\ last'.ret.v = [existing EXCEPT !.strength = s, !.context = c]
                            /\ links' = (links \ {existing}) \cup {last'.ret.v}
                       ELSE /\ last'.ret.v = existing
                            /\ links' = links

C2_Upsert == [][C2_UpsertStep]_vars

\* createLink returned an edge that was in the store, now at strength 1.0
\* with the context of the manual call
C2_Witness ==
    /\ ReturnedExisting
    /\ last.ret.v.strength = DefaultStrength
    /\ last.ret.v.context \in ManualContexts
    /\ nextId = 3

\* C3: the stored strength of an edge never decreases from one state to the
\* next, whatever call is made.
C3_StrengthStep ==
    \A l \in links, m \in links' : l.id = m.id => m.strength >= l.strength

C3_MonotonicStrength == [][C3_StrengthStep]_vars

\* the auto-linker re-detected (at 0.8 or 0.6) an edge that a manual call
\* had stored at 1.0, and the edge is still at 1.0
C3_Witness ==
    /\ last.op = "autoLinkEntry"
    /\ last.ret.tag = "int"
    /\ last.ret.v >= 1
    /\ \E l \in links :
        /\ ~l.is_automatic
        /\ l.strength = DefaultStrength
        /\ l.from_entry_id = last.args[1]
        /\ \E i \in 1..Len(DetectLinksInEntry(entries, last.args[1], last.args[2])) :
              LET d == DetectLinksInEntry(entries, last.args[1], last.args[2])[i]
              IN  d.to_entry_id = l.to_entry_id /\ d.link_type = l.link_type

\* two calls of autoLinkEntry in a row with the same arguments, the first
\* without a storage failure
SecondAutoLinkEntry ==
    /\ last.op = "autoLinkEntry"
    /\ ~last.fail
    /\ last'.op = "autoLinkEntry"
    /\ last'.args = last.args

\* C4: autoLinkEntry(e, m) called twice in a row (the first call without a
\* storage failure) leaves the edge store after the second call identical to
\* the store after the first: same triples, strengths and contexts.
C4_IdempotentStep == SecondAutoLinkEntry => links' = links

C4_Idempotent == [][C4_IdempotentStep]_vars

\* autoLinkEntry ran without failure and stored an automatic edge
C4_Witness ==
    /\ last.op = "autoLinkEntry"
    /\ ~last.fail
    /\ last.ret.tag = "int"
    /\ \E l \in links : l.is_automatic /\ l.from_entry_id = last.args[1]

\* C5: autoLinkEntry returns the number of edges it created or strengthened
\* in that call (the rows that are new or changed), so the second of two
\* consecutive calls returns 0.
C5_CountStep ==
    (/\ last'.op = "autoLinkEntry"
     /\ ~last'.fail)
    => /\ last'.ret.tag = "int"
       /\ last'.ret.v = Cardinality(links' \ links)
       /\ SecondAutoLinkEntry => last'.ret.v = 0

C5_ReturnsCreatedOrStrengthened == [][C5_CountStep]_vars

\* the call of detectLinks that last holds
Detected == last.ret.v
Subject == last.args[1]
MinStrength == last.args[2]
RawOf(subject, other) ==
    LET raw == RawCandidates(entries, subject)
    IN  {raw[k] : k \in {i \in 1..Len(raw) : raw[i].to_entry_id = other}}

\* C6: detectLinks returns at most one candidate per target; a target is
\* returned iff one of its raw candidates has strength >= minStrength, and
\* the candidate returned is one of the target's raw candidates of maximum
\* strength, a title mention whenever there is one.
C6_DedupMax ==
    last.op = "detectLinks" =>
        /\ \A i \in 1..Len(Detected), j \in 1..Len(Detected) :
                Detected[i].to_entry_id = Detected[j].to_entry_id => i = j
        /\ \A t \in EntryIds :
                (\E i \in 1..Len(Detected) : Detected[i].to_entry_id = t)
                    <=> (\E c \in RawOf(Subject, t) : c.strength >= MinStrength)
        /\ \A i \in 1..Len(Detected) :
                /\ Detected[i] \in RawOf(Subject, Detected[i].to_entry_id)
                /\ \A c \in RawOf(Subject, Detected[i].to_entry_id) :
                        /\ Detected[i].strength >= c.strength
                        /\ c.reason = "title_mention" => Detected[i] = c

\* a candidate was returned for a target that also had a weaker raw candidate
C6_Witness ==
    /\ last.op = "detectLinks"
    /\ \E i \in 1..Len(Detected) :
            \E c \in RawOf(Subject, Detected[i].to_entry_id) :
                c.strength < Detected[i].strength /\ c.strength >= MinStrength

\* the character at position k of the lower-cased  title + " " + content
TextChar(e, k) ==
    IF k <= Len(e.title) THEN LowerChar(e.title[k])
    ELSE IF k = Len(e.title) + 1 THEN " "
    ELSE LowerChar(e.content[k - Len(e.title) - 1])

Mentions(subject, other) ==
    LET n == Len(entries[subject].title) + 1 + Len(entries[subject].content)
        t == entries[other].title
    IN  \E off \in 0..(n - Len(t)) :
            \A i \in 1..Len(t) : TextChar(entries[subject], off + i) = LowerChar(t[i])

ExpectedRaw(subject, other) ==
    LET n == Cardinality(entries[subject].tags \cap entries[other].tags)
    IN  (IF Mentions(subject, other)
         THEN {<<"references", 8, "title_mention">>} ELSE {})
        \cup (IF n >= 2
              THEN {<<"references", IF 2 * n < 7 THEN 2 * n ELSE 7, "shared_tags">>}
              ELSE {})
        \cup (IF entries[subject].projects \cap entries[other].projects # {}
              THEN {<<"applies_to", 6, "shared_project">>} ELSE {})

\* C7: for the subject of a detector call and every other entry the raw
\* candidates (detected_links before the filter) are
\* exactly: references/0.8/title_mention iff the lower-cased title of the
\* other is a substring of the lower-cased title + " " + content of the
\* subject; references/min(0.7, 0.2 n)/shared_tags iff n >= 2 tag names are
\* shared; applies_to/0.6/shared_project iff a project name is shared.  The
\* subject is never a target.
C7_RawCandidates ==
    last.op = "detectLinks" =>
        LET raw == RawCandidates(entries, Subject)
        IN  /\ \A i \in 1..Len(raw) : raw[i].to_entry_id \in EntryIds \ {Subject}
            /\ \A other \in EntryIds \ {Subject} :
                    LET of == {raw[k] : k \in {i \in 1..Len(raw) : raw[i].to_entry_id = other}}
                        expected == ExpectedRaw(Subject, other)
                    IN  /\ {<<c.link_type, c.strength, c.reason>> : c \in of} = expected
                        /\ Cardinality(of) = Cardinality(expected)

\* the detector ran on a subject that has all three raw candidates for a
\* target, the shared-tag one at the cap
C7_Witness ==
    /\ last.op = "detectLinks"
    /\ \E other \in EntryIds :
        /\ Cardinality(RawOf(Subject, other)) = 3
        /\ \E c \in RawOf(Subject, other) : c.reason = "shared_tags" /\ c.strength = 7

RECURSIVE SumCounts(_)
SumCounts(done) ==
    IF done = << >> THEN 0 ELSE Head(done)[2] + SumCounts(Tail(done))

\* C8: autoLinkAll is best-effort: when the storage fails while one entry is
\* processed (in a read or in a write), the other entries are still
\* processed and the total returned is the sum of the counts of the entries
\* that succeeded.
C8_BestEffortStep ==
    \A m \in AutoMinStrengths, fault \in AllFaults \ {<<"query">>} :
        AutoLinkAll(m, fault)
        => /\ last'.ret.tag = "int"
           /\ EntryIds \ FailReadAt(fault)
                \subseteq {last'.done[i][1] : i \in 1..Len(last'.done)}
           /\ last'.ret.v = SumCounts(last'.done)

C8_BestEffort == [][C8_BestEffortStep]_vars

\* C9: a storage failure during createLink or deleteLink reaches the caller
\* as an error, not as a normal return value.
C9_FailurePropagates ==
    (last.op \in {"createLink", "deleteLink"} /\ last.fail)
        => last.ret.tag = "raise"

\* C10: deleteLink(id) for an id that is not in the store returns false,
\* raises nothing and leaves the store unchanged; for an id that is in the
\* store (and no storage failure) it removes exactly that edge and returns
\* true, and a second deleteLink of the same id returns false.
C10_DeleteStep ==
    /\ \A id \in 1..MaxLinks, fault \in RepositoryFaults :
        DeleteLink(id, fault)
        => /\ last'.ret.tag = "bool"
           /\ IF id \notin LinkIds(links)
              THEN last'.ret.v = FALSE /\ links' = links
              ELSE fault = NoFault =>
                    /\ last'.ret.v = TRUE
                    /\ links' = {l \in links : l.id # id}
                    /\ Cardinality(links') = Cardinality(links) - 1
    /\ (/\ last.op = "deleteLink"
        /\ last.ret.v = TRUE
        /\ last'.op = "deleteLink"
        /\ last'.args = last.args)
       => last'.ret.v = FALSE /\ links' = links

C11_NoSelfLoops == \A l \in links : l.from_entry_id # l.to_entry_id


\* C12: every stored edge has a strength within [0,1], whatever strength
\* createLink was called with (out-of-range values rejected or clamped).
C12_StrengthInRange == \A l \in links : 0 <= l.strength /\ l.strength <= 10

Result == last.ret.v

\* C13: outgoing(e) holds exactly the edges from e and incoming(e) exactly
\* the edges to e, each once, by descending strength; edges of equal
\* strength come in creation order, earliest first.
C13_SortedEdges ==
    last.op \in {"outgoing", "incoming"} =>
        /\ {Result[i] : i \in 1..Len(Result)}
                = {l \in links : IF last.op = "outgoing"
                                 THEN l.from_entry_id = last.args[1]
                                 ELSE l.to_entry_id = last.args[1]}
        /\ \A i \in 1..Len(Result), j \in 1..Len(Result) :
                i < j => \/ Result[i].strength > Result[j].strength
                         \/ /\ Result[i].strength = Result[j].strength
                            /\ Result[i].id < Result[j].id

RECURSIVE SumStrengths(_)
SumStrengths(S) ==
    IF S = {} THEN 0
    ELSE LET l == CHOOSE x \in S : TRUE
         IN  l.strength + SumStrengths(S \ {l})

RECURSIVE SumProducts(_)
SumProducts(P) ==
    IF P = {} THEN 0
    ELSE LET p == CHOOSE x \in P : TRUE
         IN  p[1].strength * p[2].strength + SumProducts(P \ {p})

EdgesBetween(a, b) == {l \in links : l.from_entry_id = a /\ l.to_entry_id = b}

TwoHops(subject, e) ==
    {p \in links \X links : /\ p[1].from_entry_id = subject
                            /\ p[2].from_entry_id = p[1].to_entry_id
                            /\ p[2].to_entry_id = e}

\* the score of e for subject, in thousandths
ExpectedScore(subject, e, includeIndirect) ==
    100 * SumStrengths(EdgesBetween(subject, e))
        + 80 * SumStrengths(EdgesBetween(e, subject))
        + (IF includeIndirect /\ e # subject
           THEN 3 * SumProducts(TwoHops(subject, e)) ELSE 0)

Contributes(subject, e, includeIndirect) ==
    \/ EdgesBetween(subject, e) # {}
    \/ EdgesBetween(e, subject) # {}
    \/ includeIndirect /\ e # subject /\ TwoHops(subject, e) # {}

C15_RelatedOrder ==
    last.op = "findRelated" =>
        LET scored == {e \in EntryIds : Contributes(last.args[1], e, last.args[3])}
            returned == {Result[i][1] : i \in 1..Len(Result)}
        IN  /\ Len(Result) = Min(last.args[2], Cardinality(scored))
            /\ returned \subseteq scored
            /\ \A e \in scored \ returned : \A i \in 1..Len(Result) :
                    ExpectedScore(last.args[1], e, last.args[3]) <= Result[i][2]
            /\ \A i \in 1..Len(Result), j \in 1..Len(Result) :
                    i < j => \/ Result[i][2] > Result[j][2]
                             \/ /\ Result[i][2] = Result[j][2]
                                /\ Result[i][1] < Result[j][1]

\* C16: findRelated returns no entry whose accumulated score is zero.
C16_NoZeroScore ==
    last.op = "findRelated" => \A i \in 1..Len(Result) : Result[i][2] # 0


Nodes == {l.from_entry_id : l \in links} \cup {l.to_entry_id : l \in links}

Linked(a, b) ==
    \E l \in links : \/ l.from_entry_id = a /\ l.to_entry_id = b
                     \/ l.from_entry_id = b /\ l.to_entry_id = a

RECURSIVE Grow(_)
Grow(S) ==
    LET more == S \cup {n \in EntryIds : \E m \in S : Linked(n, m)}
    IN  IF more = S THEN S ELSE Grow(more)

\* the connected components of the undirected view that have minSize members
ExpectedClusters(minSize) ==
    {c \in {Grow({n}) : n \in Nodes} : Cardinality(c) >= minSize}

\* C17: findClusters(minSize) returns exactly the connected components of
\* the undirected view of the edge graph with at least minSize members,
\* each once: the clusters are pairwise disjoint, the two ends of an edge
\* of either direction are in the same cluster or in none, and an entry
\* without edges is in no cluster.
C17_ConnectedComponents ==
    last.op = "findClusters" =>
        /\ {Result[i] : i \in 1..Len(Result)} = ExpectedClusters(last.args[1])
        /\ Len(Result) = Cardinality(ExpectedClusters(last.args[1]))
        /\ \A i \in 1..Len(Result), j \in 1..Len(Result) :
                i # j => Result[i] \cap Result[j] = {}
        /\ \A l \in links, i \in 1..Len(Result) :
                l.from_entry_id \in Result[i] <=> l.to_entry_id \in Result[i]
        /\ \A e \in EntryIds \ Nodes, i \in 1..Len(Result) : e \notin Result[i]

\* entries 1 and 3 both point to entry 2 and are returned as one cluster
C17_Witness ==
    /\ last.op = "findClusters"
    /\ {<<l.from_entry_id, l.to_entry_id>> : l \in links} = {<<1, 2>>, <<3, 2>>}
    /\ Result = << {1, 2, 3} >>

\* the position at which a node of cluster c first appears as an endpoint
\* in the edge list (from before to, row after row)
FirstSeen(c, ends) ==
    SetMin({2 * i - 1 : i \in {k \in 1..Len(ends) : ends[k][1] \in c}}
            \cup {2 * i : i \in {k \in 1..Len(ends) : ends[k][2] \in c}})

\* C18: the list of findClusters is by descending cluster size, and
\* clusters of equal size are in the order in which their first node
\* first appears as an endpoint in the edge list.
C18_ClusterOrder ==
    last.op = "findClusters" =>
        \A i \in 1..Len(Result), j \in 1..Len(Result) :
            i < j => \/ Cardinality(Result[i]) > Cardinality(Result[j])
                     \/ /\ Cardinality(Result[i]) = Cardinality(Result[j])
                        /\ FirstSeen(Result[i], last.args[2])
                                < FirstSeen(Result[j], last.args[2])

\* two clusters of equal size were returned, the one of the higher entry
\* id first
C18_Witness ==
    /\ last.op = "findClusters"
    /\ Len(Result) >= 2
    /\ Cardinality(Result[1]) = Cardinality(Result[2])
    /\ SetMin(Result[1]) > SetMin(Result[2])

\* C19: graphStats reports entries_with_links as the number of distinct
\* entries with an outgoing edge and orphaned_entries as total_entries
\* minus that number, never negative, in every store state.
C19_StatsCounts ==
    last.op = "graphStats" =>
        /\ last.ret.tag = "stats"
        /\ Result.entries_with_links
                = Cardinality({e \in EntryIds : \E l \in links : l.from_entry_id = e})
        /\ Result.orphaned_entries = Result.total_entries - Result.entries_with_links
        /\ Result.orphaned_entries >= 0

Degree(e) ==
    Cardinality({l \in links : l.from_entry_id = e})
        + Cardinality({l \in links : l.to_entry_id = e})

\* C20: graphStats returns, in every store state, a most-connected list of
\* the (up to) 10 entries of highest total degree (incoming plus outgoing),
\* degree 0 left out, by descending degree and then entry id, each item
\* with the id, the title and the degree of its entry.
C20_MostConnected ==
    last.op = "graphStats" =>
        /\ last.ret.tag = "stats"
        /\ LET mc == Result.most_connected
               connected == {e \in EntryIds : Degree(e) > 0}
           IN  /\ Len(mc) = Min(10, Cardinality(connected))
               /\ \A i \in 1..Len(mc) :
                    /\ mc[i][1] \in connected
                    /\ mc[i][2] = entries[mc[i][1]].title
                    /\ mc[i][3] = Degree(mc[i][1])
               /\ \A i \in 1..Len(mc), j \in 1..Len(mc) :
                    i < j => \/ mc[i][3] > mc[j][3]
                             \/ mc[i][3] = mc[j][3] /\ mc[i][1] < mc[j][1]
               /\ \A e \in connected \ {mc[i][1] : i \in 1..Len(mc)} :
                    \A i \in 1..Len(mc) : Degree(e) <= mc[i][3]

\* the rows of entry_versions of one entry
VersionsOf(entry_id) == {v \in versions : v.entry_id = entry_id}

C29_Numbered ==
    \A e \in DOMAIN entries :
        LET n == Cardinality(VersionsOf(e))
        IN  /\ n >= 1
            /\ {v.version_number : v \in VersionsOf(e)} = 1..n
            /\ \A v \in VersionsOf(e) : v.version_number = n => v.content = entries[e].content

C29_NoNewVersion ==
    (last'.op = "updateEntry" /\ last'.ret # RetRaise) =>
        LET content == last'.args[2].content
        IN  (~content.some \/ content.v = entries[last'.args[1]].content)
                => versions' = versions

\* C29: after every create_entry and update_entry the versions of each entry
\* are numbered exactly 1..n, without gap or duplicate, the version of the
\* highest number holds the current content of the entry, and an update
\* whose content is None or equal to the current content adds no version.
C29_Versions == [][C29_Numbered' /\ C29_NoNewVersion]_vars

\* an update of the title alone was made on an entry that has two versions
C29_Witness ==
    /\ last.op = "updateEntry"
    /\ last.ret # RetRaise
    /\ ~last.args[2].content.some
    /\ entries[last.args[1]].title = <<"b">>
    /\ Cardinality(VersionsOf(last.args[1])) >= 2


\* C21: get_entry answers None, without raising, for an id that was never
\* created and for an id whose delete_entry answered True: the delete
\* removes the row, a removed id never comes back, and get_entry answers
\* the entry exactly for the ids of stored rows.
C21_Lookup ==
    [][/\ (last'.op = "deleteEntry" /\ last'.ret.v)
            => last'.args[1] \notin DOMAIN entries'
       /\ \A id \in EntryIds :
            (id < nextEntry /\ id \notin DOMAIN entries) => id \notin DOMAIN entries'
       /\ last'.op = "getEntry"
            => last'.ret = IF last'.args[1] \in DOMAIN entries'
                           THEN RetEntry(last'.args[1]) ELSE RetNone]_vars

\* get_entry answered None for the id of a deleted entry while a later
\* entry is stored
C21_Witness ==
    /\ last.op = "getEntry"
    /\ last.ret = RetNone
    /\ last.args[1] < nextEntry
    /\ \E e \in DOMAIN entries : e > last.args[1]

\* C27: both endpoints of every stored edge are ids of stored entries.
C27_EndpointsExist ==
    \A l \in links : {l.from_entry_id, l.to_entry_id} \subseteq DOMAIN entries


\* C28: the list of findRelated never holds the subject entry itself.
C28_SubjectExcluded ==
    last.op = "findRelated" =>
        \A i \in 1..Len(Result) : Result[i][1] # last.args[1]


\* C25: an edge that stays in the store keeps its id, endpoints, link_type
\* and is_automatic flag whatever call strengthens it (a manual createLink or
\* the create_link of the automatic linker): only strength and context
\* change, and one createLink changes at most one edge.
C25_FixedFields ==
    [][/\ \A l \in links, m \in links' :
            m.id = l.id => [m EXCEPT !.strength = l.strength, !.context = l.context] = l
       /\ last'.op = "createLink" => Cardinality(links' \ links) <= 1]_vars

\* the automatic linker strengthened an edge that a manual createLink had
\* created at strength 0.5: it is at 0.8 and still not automatic, beside
\* another edge
C25_Witness ==
    /\ last.op = "autoLinkEntry"
    /\ Cardinality(links) = 2
    /\ \E l \in links : ~l.is_automatic /\ l.strength = TitleMentionStrength


\* C26: with edits of entries and runs of the automatic linker only, no
\* ordered pair of entries has two automatic edges.
C26_OneAutomaticEdgePerPair ==
    \A l \in links, m \in links :
        (/\ l.is_automatic
         /\ m.is_automatic
         /\ l.from_entry_id = m.from_entry_id
         /\ l.to_entry_id = m.to_entry_id) => l = m


\* C23: detectLinks returns a list for every subject and population, and no
\* candidate of reason title_mention has a target whose title is empty.
C23_EmptyText ==
    last.op = "detectLinks" =>
        /\ last.ret.tag = "list"
        /\ \A i \in 1..Len(Detected) :
                Detected[i].reason = "title_mention"
                    => entries[Detected[i].to_entry_id].title # << >>


\* C22: a createLink whose insert meets a stored edge of its triple (stored
\* by the other session after this call's query found none) returns that
\* stored edge, not None.
C22_ConflictResolved ==
    [][\A s \in Sessions :
        (/\ sessions[s].pc = "queried"
         /\ sessions[s].existing = {}
         /\ Existing(links, sessions[s].args[1], sessions[s].args[2],
                     sessions[s].args[3]) # {}
         /\ sessions'[s].pc = "idle")
        => /\ last'.ret.tag = "link"
           /\ last'.ret.v \in Existing(links', sessions[s].args[1], sessions[s].args[2],
                                       sessions[s].args[3])]_vars

\* C24: with the create_link calls of two sessions interleaved, the stored
\* strength of an edge never decreases from one commit to the next.
C24_MonotonicUnderInterleaving ==
    [][\A l \in links, m \in links' : m.id = l.id => m.strength >= l.strength]_vars


\* C30: the list of suggest_links_for_entry(entry, limit) has at most limit
\* items, is by descending strength, and holds no target to which the store
\* has an edge from the entry (so it is empty right after an autoLinkEntry
\* of the entry at min_strength 0.3 or less).
C30_Suggestions ==
    last.op = "suggestLinks" =>
        /\ Len(Result) <= last.args[2]
        /\ \A i \in 1..Len(Result), j \in 1..Len(Result) :
                i < j => Result[i].strength >= Result[j].strength
        /\ \A i \in 1..Len(Result) :
                ~\E l \in links : /\ l.from_entry_id = last.args[1]
                                  /\ l.to_entry_id = Result[i].to_entry_id


====
